---------------------------- MODULE Spec2Model ----------------------------
(***************************************************************************)
(* Multi-Agent LLM System Failure Educator.                                *)
(*                                                                         *)
(*   agent.py     the Taxonomy Store (failure_modes, categories) and the   *)
(*                Query Router (process_user_request)                      *)
(*   database.py  the Interaction Log (three SQLite tables)                *)
(*   app.py       the reference caller (Tk handlers)                       *)
(*                                                                         *)
(* Python strings are sequences of one-character strings, so that lower(), *)
(* strip() and the substring test `a in b` are computed, not assumed.      *)
(* An optional Python value (dict.get without a hit, None, SQL NULL) is a  *)
(* sequence of length 0 (absent) or 1 (present).                           *)
(***************************************************************************)
EXTENDS Integers, Sequences, FiniteSets, TLC

VARIABLES
    source,          \* data/failure_modes.json as the process finds it
    agent,           \* "new" | "ok" | "raised": MultiAgentFailureEducator()
    failure_modes,   \* self.failure_modes: ordered dict, name -> record
    categories,      \* self.categories: ordered dict, category -> names
    request,         \* the text handed to process_user_request
    response,        \* outcome of the last process_user_request call
    again,           \* subject chosen by the call before it on the same text
    user_queries,           \* table user_queries, as the connection sees it
    viewed_failure_modes,   \* table viewed_failure_modes
    solution_feedback,      \* table solution_feedback
    sqlite_sequence,        \* AUTOINCREMENT high-water mark per table
    uncommitted,            \* rows of the connection's open transaction
    lastrowid,              \* self.cursor.lastrowid
    clock,                  \* CURRENT_TIMESTAMP (one-second resolution)
    ret,                    \* outcome of the last database call
    logged,                 \* history: per table, what returned log calls wrote
    failed,                 \* history: rows that raising log calls tried to write
    app,                    \* history of the last app.py handler run
    widgets                 \* Tk state of the failure modes tab

vars == <<source, agent, failure_modes, categories, request, response, again,
          user_queries, viewed_failure_modes, solution_feedback,
          sqlite_sequence, uncommitted, lastrowid, clock, ret, logged, failed,
          app, widgets>>

agentVars == <<source, agent, failure_modes, categories>>
routeVars == <<request, response, again>>
dbVars == <<user_queries, viewed_failure_modes, solution_feedback,
            sqlite_sequence, uncommitted, lastrowid, clock, ret, logged, failed>>

-----------------------------------------------------------------------------
(* Python str                                                              *)

\* str.lower() on one character (ASCII letters).
LowerChar(c) ==
    CASE c = "A" -> "a" [] c = "B" -> "b" [] c = "C" -> "c" [] c = "D" -> "d"
      [] c = "E" -> "e" [] c = "F" -> "f" [] c = "G" -> "g" [] c = "H" -> "h"
      [] c = "I" -> "i" [] c = "J" -> "j" [] c = "K" -> "k" [] c = "L" -> "l"
      [] c = "M" -> "m" [] c = "N" -> "n" [] c = "O" -> "o" [] c = "P" -> "p"
      [] c = "Q" -> "q" [] c = "R" -> "r" [] c = "S" -> "s" [] c = "T" -> "t"
      [] c = "U" -> "u" [] c = "V" -> "v" [] c = "W" -> "w" [] c = "X" -> "x"
      [] c = "Y" -> "y" [] c = "Z" -> "z" [] OTHER -> c

\* str.lower()
Lower(s) == [i \in 1..Len(s) |-> LowerChar(s[i])]

\* `sub in s`
Contains(sub, s) ==
    \E i \in 0..(Len(s) - Len(sub)) : \A k \in 1..Len(sub) : s[i + k] = sub[k]

Whitespace == {" ", "\t", "\n"}

\* (mutant) str.lstrip(): trailing whitespace stays
StripLeading(s) ==
    LET keep == {i \in 1..Len(s) : s[i] \notin Whitespace}
    IN  IF keep = {} THEN <<>>
        ELSE SubSeq(s, CHOOSE i \in keep : \A j \in keep : i <= j, Len(s))

\* str.strip()
Strip(s) ==
    LET keep == {i \in 1..Len(s) : s[i] \notin Whitespace}
    IN  IF keep = {} THEN <<>>
        ELSE LET lo == CHOOSE i \in keep : \A j \in keep : i <= j
                 hi == CHOOSE i \in keep : \A j \in keep : j <= i
             IN  SubSeq(s, lo, hi)

\* dict.get(key, default) on a record field that may be absent
Get(d, f, default) == IF d[f] = <<>> THEN default ELSE d[f][1]


-----------------------------------------------------------------------------
(* The taxonomy data the model is run on                                   *)

\* Failure-mode identifiers and category names of the data file.
mQz == <<"Q", "z">>
mZ == <<"z">>
mJ == <<"J">>
mEx == <<"E", "x">>
cKv == <<"K", "v">>
cY == <<"y">>

\* One record of the data file; every field may be missing.
Record(cat, scen, tact, struct) ==
    [category |-> cat, short_description |-> <<"short">>,
     description |-> <<"description">>, example_scenarios |-> scen,
     phd_level_analysis |-> <<"analysis">>,
     tactical_solutions |-> tact, structural_solutions |-> struct]

\* {} : a record with no field at all
EmptyRecord ==
    [category |-> <<>>, short_description |-> <<>>, description |-> <<>>,
     example_scenarios |-> <<>>, phd_level_analysis |-> <<>>,
     tactical_solutions |-> <<>>, structural_solutions |-> <<>>]

rFull == Record(<<cKv>>, <<<<"s1", "s2">>>>, <<<<"t1", "t2">>>>, <<<<"u1">>>>)
rNoStruct == Record(<<cKv>>, <<<<"s1">>>>, <<<<"t1">>>>, <<<<>>>>)
rOther == Record(<<cY>>, <<<<>>>>, <<>>, <<<<"u1", "u2">>>>)
rNoCat == Record(<<>>, <<<<"s1">>>>, <<<<"t1">>>>, <<<<"u1">>>>)

\* A key of the parsed JSON object with its value: an object (isdict) or not.
Item(n, d) == [name |-> n, isdict |-> TRUE, data |-> d]
BadItem(n) == [name |-> n, isdict |-> FALSE, data |-> EmptyRecord]

\* The data file: missing, not JSON, or JSON whose top level is `top`.
File(k, t, its) == [kind |-> k, top |-> t, items |-> its]
Json(its) == File("json", "dict", its)

WellFormedSources ==
    { Json(<<Item(mQz, rFull), Item(mZ, rNoStruct), Item(mJ, rOther)>>),
      Json(<<Item(mZ, rNoStruct), Item(mQz, rFull), Item(mJ, rOther)>>),
      Json(<<Item(mJ, rOther), Item(mEx, rFull)>>),
      Json(<<>>) }

\* Records without a category field: _organize_categories uses .get.
NoCategorySources ==
    { Json(<<Item(mQz, rFull), Item(mJ, rNoCat)>>),
      Json(<<Item(mJ, rNoCat), Item(mQz, rFull)>>),
      Json(<<Item(mJ, EmptyRecord)>>) }

MalformedSources ==
    { File("absent", "none", <<>>),        \* open() raises
      File("invalid", "none", <<>>),       \* json.load raises
      File("json", "list", <<>>),          \* [] : valid JSON, not a mapping
      File("json", "scalar", <<>>),        \* 3 or "x" or null
      Json(<<Item(mQz, rFull), BadItem(mJ)>>) }   \* a value that is no object

Sources == WellFormedSources \cup NoCategorySources \cup MalformedSources

-----------------------------------------------------------------------------
(* agent.py: construction                                                  *)

\* _create_default_failure_modes: return {}
CreateDefaultFailureModes == <<>>

\* _load_failure_modes: json.load's value, or the default on any exception.
\* The value is returned whatever its type; `loaded_top` keeps that type.
LoadedTop(src) == IF src.kind = "json" THEN src.top ELSE "dict"
LoadFailureModes(src) ==
    IF src.kind = "json" THEN src.items ELSE CreateDefaultFailureModes

\* `category not in categories` on the ordered dict
HasKey(cats, k) == \E i \in 1..Len(cats) : cats[i].key = k

\* (mutant) a bucket is created for every mode, seen before or not
AddToCategoryNewBucket(cats, k, n) == Append(cats, [key |-> k, modes |-> <<n>>])

\* categories[category].append(mode_name), creating the bucket on first sight
AddToCategory(cats, k, n) ==
    IF HasKey(cats, k)
    THEN [i \in 1..Len(cats) |->
            IF cats[i].key = k
            THEN [cats[i] EXCEPT !.modes = Append(@, n)] ELSE cats[i]]
    ELSE Append(cats, [key |-> k, modes |-> <<n>>])

\* (mutant) the records are visited from the last to the first
RECURSIVE OrganizeBackwards(_, _, _)
OrganizeBackwards(modes, i, cats) ==
    IF i > Len(modes) THEN cats
    ELSE OrganizeBackwards(modes, i + 1,
                           AddToCategory(cats, modes[Len(modes) + 1 - i].data.category,
                                         modes[Len(modes) + 1 - i].name))

\* `for mode_name, mode_data in self.failure_modes.items()`, from record i on
RECURSIVE OrganizeFrom(_, _, _)
OrganizeFrom(modes, i, cats) ==
    IF i > Len(modes) THEN cats
    ELSE OrganizeFrom(modes, i + 1,
                      AddToCategory(cats, modes[i].data.category, modes[i].name))

\* _organize_categories raises when failure_modes has no .items() (not a
\* dict) or a value has no .get() (not a dict).
OrganizeRaises(top, modes) ==
    \/ top # "dict"
    \/ \E i \in 1..Len(modes) : ~modes[i].isdict

OrganizeCategories(modes) == OrganizeFrom(modes, 1, <<>>)

\* MultiAgentFailureEducator.__init__
Construct ==
    /\ agent = "new"
    /\ LET top == LoadedTop(source)
           modes == LoadFailureModes(source)
       IN  IF OrganizeRaises(top, modes)
           THEN /\ agent' = "raised"
                /\ UNCHANGED <<failure_modes, categories>>
           ELSE /\ agent' = "ok"
                /\ failure_modes' = modes
                /\ categories' = OrganizeCategories(modes)
    /\ UNCHANGED <<source, routeVars, dbVars, app, widgets>>

\* (mutant) self.categories.setdefault(category, [])
CategoriesAfterSetDefault(k) ==
    IF HasKey(categories, k) THEN categories
    ELSE Append(categories, [key |-> k, modes |-> <<>>])

\* self.categories after `self.categories.get(category, [])`: dict.get
\* returns the default without storing it
CategoriesAfterGet(k) == categories

\* `mode_name in self.failure_modes`
HasMode(modes, n) == \E i \in 1..Len(modes) : modes[i].name = n

\* (mutant) self.failure_modes.setdefault(mode_name, {})
FailureModesAfterSetDefault(n) ==
    IF HasMode(failure_modes, n) THEN failure_modes
    ELSE Append(failure_modes, Item(n, EmptyRecord))

\* self.failure_modes after `self.failure_modes.get(mode_name, {})`
FailureModesAfterGet(n) == failure_modes

\* get_all_categories: list(self.categories.keys())
GetAllCategories == [i \in 1..Len(categories) |-> categories[i].key]

\* get_failure_modes_in_category: self.categories.get(category, [])
GetFailureModesInCategory(k) ==
    IF HasKey(categories, k)
    THEN (CHOOSE c \in {categories[i] : i \in 1..Len(categories)} : c.key = k).modes
    ELSE <<>>

\* get_failure_mode_info: self.failure_modes.get(mode_name, {})
GetFailureModeInfo(n) ==
    IF \E i \in 1..Len(failure_modes) : failure_modes[i].name = n
    THEN (CHOOSE m \in {failure_modes[i] : i \in 1..Len(failure_modes)} :
              m.name = n).data
    ELSE EmptyRecord

-----------------------------------------------------------------------------
(* agent.py: the documents                                                 *)

\* One line of a document: a markdown tag and the values formatted into it.
Line(tag, parts) == [tag |-> tag, parts |-> parts]

\* `for solution in ...: response += f"- {solution}\n"`
Bullets(items) == [i \in 1..Len(items) |-> Line("bullet", <<items[i]>>)]

\* demonstrate_failure_mode, `pick` being random.choice's draw
Demonstrate(n, pick) ==
    LET scenarios == Get(GetFailureModeInfo(n), "example_scenarios", <<>>)
    IN  IF scenarios = <<>> THEN "No demonstration scenarios available"
        ELSE scenarios[pick]

\* the draws random.choice can make for mode n (one dummy draw when the
\* list is empty and random.choice is not called)
Draws(n) ==
    LET scenarios == Get(GetFailureModeInfo(n), "example_scenarios", <<>>)
    IN  IF scenarios = <<>> THEN {1} ELSE 1..Len(scenarios)

\* analyze_failure_mode
Analyze(n) == Get(GetFailureModeInfo(n), "phd_level_analysis", "No analysis available")

\* get_solutions
GetSolutions(n) ==
    [tactical |-> Get(GetFailureModeInfo(n), "tactical_solutions", <<>>),
     structural |-> Get(GetFailureModeInfo(n), "structural_solutions", <<>>)]

\* explain_category: a fixed table of three names, else a placeholder
kCommunication == <<"C", "o", "m", "m", "u", "n", "i", "c", "a", "t", "i", "o", "n", " ", "F", "a", "i", "l", "u", "r", "e", "s">>
kAlignment == <<"A", "l", "i", "g", "n", "m", "e", "n", "t", " ", "F", "a", "i", "l", "u", "r", "e", "s">>
kDecision == <<"D", "e", "c", "i", "s", "i", "o", "n", "/", "C", "o", "o", "r", "d", "i", "n", "a", "t", "i", "o", "n", " ", "F", "a", "i", "l", "u", "r", "e", "s">>
ExplainCategory(k) ==
    IF k = <<kCommunication>> THEN "Communication failures occur when ..."
    ELSE IF k = <<kAlignment>> THEN "Alignment failures emerge when ..."
    ELSE IF k = <<kDecision>> THEN "Decision and coordination failures manifest when ..."
    ELSE "No description available for category"

Document(kind, subject, lines) ==
    [status |-> "returned", kind |-> kind, subject |-> subject, lines |-> lines]

\* (mutant) a subsection without items is left out, heading included
GenerateFailureModeResponseSkipEmpty(n, pick) ==
    LET mode_info == GetFailureModeInfo(n)
        solutions == GetSolutions(n)
        Section(title, items) ==
            IF items = <<>> THEN <<>>
            ELSE << Line("h3", <<title>>) >> \o Bullets(items)
    IN  Document("failure_mode", <<n>>,
          << Line("h1", <<n, mode_info.category>>),
             Line("h2", <<"Definition">>),
             Line("text", <<Get(mode_info, "description", "No description available.")>>),
             Line("h2", <<"Demonstration">>),
             Line("text", <<Demonstrate(n, pick)>>),
             Line("h2", <<"PhD-Level Analysis">>),
             Line("text", <<Analyze(n)>>),
             Line("h2", <<"Solutions">>) >>
          \o Section("Tactical Solutions", solutions.tactical)
          \o Section("Structural Solutions", solutions.structural))

\* _generate_failure_mode_response
GenerateFailureModeResponse(n, pick) ==
    LET mode_info == GetFailureModeInfo(n)
        solutions == GetSolutions(n)
    IN  Document("failure_mode", <<n>>,
          << Line("h1", <<n, mode_info.category>>),
             Line("h2", <<"Definition">>),
             Line("text", <<Get(mode_info, "description", "No description available.")>>),
             Line("h2", <<"Demonstration">>),
             Line("text", <<Demonstrate(n, pick)>>),
             Line("h2", <<"PhD-Level Analysis">>),
             Line("text", <<Analyze(n)>>),
             Line("h2", <<"Solutions">>),
             Line("h3", <<"Tactical Solutions">>) >>
          \o Bullets(solutions.tactical)
          \o << Line("h3", <<"Structural Solutions">>) >>
          \o Bullets(solutions.structural))

\* the "- **{mode}**: {short_description}" bullets of a category
ModeBullets(modes) ==
    [i \in 1..Len(modes) |->
        Line("bullet", <<modes[i],
             Get(GetFailureModeInfo(modes[i]), "short_description",
                 "No description available.")>>)]

\* _generate_category_response
GenerateCategoryResponse(k) ==
    Document("category", k,
      << Line("h1", <<k>>), Line("text", <<ExplainCategory(k)>>),
         Line("h2", <<"Failure Modes in this Category:">>) >>
      \o ModeBullets(GetFailureModesInCategory(k)))

RECURSIVE AllModesLines(_)
AllModesLines(i) ==
    IF i > Len(categories) THEN <<>>
    ELSE << Line("h2", <<categories[i].key>>) >>
         \o ModeBullets(categories[i].modes)
         \o << Line("blank", <<>>) >> \o AllModesLines(i + 1)

\* _generate_all_failure_modes_response
GenerateAllFailureModesResponse ==
    Document("all_modes", <<>>,
      << Line("h1", <<"All Failure Modes">>) >> \o AllModesLines(1))

RECURSIVE AllCategoriesLines(_)
AllCategoriesLines(i) ==
    IF i > Len(categories) THEN <<>>
    ELSE << Line("h2", <<categories[i].key>>),
            Line("text", <<ExplainCategory(categories[i].key)>>) >>
         \o AllCategoriesLines(i + 1)

\* _generate_all_categories_response
GenerateAllCategoriesResponse ==
    Document("all_categories", <<>>,
      << Line("h1", <<"All Failure Mode Categories">>) >> \o AllCategoriesLines(1))

\* _generate_help_response
GenerateHelpResponse ==
    Document("help", <<>>,
      << Line("h1", <<"Multi-Agent Failure Educator Help">>),
         Line("text", <<"I can help you learn about why multi-agent LLM systems fail.">>),
         Line("bullet", <<"Ask about a specific failure mode">>),
         Line("bullet", <<"Request explanation of a failure category">>),
         Line("bullet", <<"Ask for solutions to a particular failure mode">>),
         Line("bullet", <<"Request a list of all failure modes or categories">>) >>)

\* an exception leaving process_user_request
Raised(what) == [status |-> "raised", kind |-> what, subject |-> <<>>, lines |-> <<>>]
NoResponse == [status |-> "none", kind |-> "none", subject |-> <<>>, lines |-> <<>>]

-----------------------------------------------------------------------------
(* agent.py: process_user_request                                          *)

kExplain == <<"e", "x", "p", "l", "a", "i", "n", " ">>
kAbout == <<"a", "b", "o", "u", "t", " ">>
kListAllFailureModes == <<"l", "i", "s", "t", " ", "a", "l", "l", " ", "f", "a", "i", "l", "u", "r", "e", " ", "m", "o", "d", "e", "s">>
kShowAllFailures == <<"s", "h", "o", "w", " ", "a", "l", "l", " ", "f", "a", "i", "l", "u", "r", "e", "s">>
kListAllCategories == <<"l", "i", "s", "t", " ", "a", "l", "l", " ", "c", "a", "t", "e", "g", "o", "r", "i", "e", "s">>
kShowAllCategories == <<"s", "h", "o", "w", " ", "a", "l", "l", " ", "c", "a", "t", "e", "g", "o", "r", "i", "e", "s">>

\* `mode_name.lower() in request_lower`
ModeMatches(i, request_lower) ==
    Contains(Lower(failure_modes[i].name), request_lower)

\* (mutant) the loop keeps the last key that matches
LastMatch(hits) == CHOOSE i \in hits : \A j \in hits : j <= i

\* the mode loop returns at the first key, in dict order, that matches
FirstMatch(hits) == CHOOSE i \in hits : \A j \in hits : i <= j
MatchingModes(request_lower) ==
    {i \in 1..Len(failure_modes) : ModeMatches(i, request_lower)}

\* `category.lower()` raises AttributeError on the key None
CategoryRaises(i) == categories[i].key = <<>>

\* f"explain {category.lower()}" in request_lower or f"about {...}" in ...
CategoryMatches(i, request_lower) ==
    LET c == Lower(categories[i].key[1])
    IN  \/ Contains(kExplain \o c, request_lower)
        \/ Contains(kAbout \o c, request_lower)

\* the category loop stops at the first key that raises or matches
CategoryStops(request_lower) ==
    {i \in 1..Len(categories) :
        CategoryRaises(i) \/ CategoryMatches(i, request_lower)}

\* process_user_request(text), `pick` being random.choice's draw
ProcessUserRequest(text, pick) ==
    LET request_lower == Lower(text)
        hits == MatchingModes(request_lower)
        stops == CategoryStops(request_lower)
    IN  IF hits # {}
        THEN GenerateFailureModeResponse(failure_modes[FirstMatch(hits)].name, pick)
        ELSE IF stops # {}
        THEN LET i == FirstMatch(stops)
             IN  IF CategoryRaises(i) THEN Raised("AttributeError")
                 ELSE GenerateCategoryResponse(categories[i].key)
        ELSE IF \/ Contains(kListAllFailureModes, request_lower)
                \/ Contains(kShowAllFailures, request_lower)
        THEN GenerateAllFailureModesResponse
        ELSE IF \/ Contains(kListAllCategories, request_lower)
                \/ Contains(kShowAllCategories, request_lower)
        THEN GenerateAllCategoriesResponse
        ELSE GenerateHelpResponse

\* the draws random.choice can make while text is processed
RequestDraws(text) ==
    LET hits == MatchingModes(Lower(text))
    IN  IF hits = {} THEN {1} ELSE Draws(failure_modes[FirstMatch(hits)].name)

-----------------------------------------------------------------------------
(* database.py: the three tables                                           *)

MaxRows == 2        \* rows the three tables hold together
MaxClock == 1       \* seconds the clock advances

Tables == {"user_queries", "viewed_failure_modes", "solution_feedback"}

\* the rows of a table, in rowid order
TableRows(t) ==
    CASE t = "user_queries" -> user_queries
      [] t = "viewed_failure_modes" -> viewed_failure_modes
      [] t = "solution_feedback" -> solution_feedback

TotalRows == Len(user_queries) + Len(viewed_failure_modes) + Len(solution_feedback)

Min(a, b) == IF a <= b THEN a ELSE b

\* (mutant) the high-water mark is handed out again
NextRowIdReused(t) == IF sqlite_sequence[t] = 0 THEN 1 ELSE sqlite_sequence[t]

\* id INTEGER PRIMARY KEY AUTOINCREMENT: one more than the largest rowid the
\* table has ever held
NextRowId(t) == sqlite_sequence[t] + 1

\* what a call of the database leaves for its caller
Returned(op, arg, id, rows) ==
    [op |-> op, status |-> "ok", arg |-> arg, id |-> id, rows |-> rows]
DbRaised(op) == [op |-> op, status |-> "raised", arg |-> 0, id |-> 0, rows |-> <<>>]
NoCall == [op |-> "none", status |-> "none", arg |-> 0, id |-> 0, rows |-> <<>>]

\* storage, as one log call meets it: both statements succeed; execute
\* raises (nothing written); commit raises (the INSERT stays in the open
\* transaction: the methods have no rollback)
Outcomes == {"ok", "execute_raises", "commit_raises"}

\* cursor.execute("INSERT ..."); conn.commit(); return cursor.lastrowid
\* on table t, the new row being `row` (its id and timestamp set here)
Insert(t, op, row, content, outcome) ==
    LET id == NextRowId(t)
        new == [row EXCEPT !.id = id, !.timestamp = clock]
    IN  /\ IF outcome = "execute_raises"
           THEN /\ ret' = DbRaised(op)
                /\ UNCHANGED <<user_queries, viewed_failure_modes, solution_feedback,
                               sqlite_sequence, uncommitted, lastrowid, logged, failed>>
           ELSE /\ user_queries' =
                      IF t = "user_queries" THEN Append(user_queries, new)
                      ELSE user_queries
                /\ viewed_failure_modes' =
                      IF t = "viewed_failure_modes"
                      THEN Append(viewed_failure_modes, new) ELSE viewed_failure_modes
                /\ solution_feedback' =
                      IF t = "solution_feedback"
                      THEN Append(solution_feedback, new) ELSE solution_feedback
                /\ sqlite_sequence' = [sqlite_sequence EXCEPT ![t] = id]
                /\ lastrowid' = id
                /\ IF outcome = "commit_raises"
                   THEN /\ uncommitted' = uncommitted \cup {<<t, id>>}
                        /\ failed' = failed \cup {<<t, id>>}
                        /\ ret' = DbRaised(op)
                        /\ UNCHANGED logged
                   ELSE /\ uncommitted' = {}
                        /\ ret' = Returned(op, 0, id, <<>>)
                        /\ logged' = [logged EXCEPT ![t] = Append(@, content)]
                        /\ UNCHANGED failed
        /\ UNCHANGED clock

\* log_user_query(query)
LogUserQuery(query, outcome) ==
    Insert("user_queries", "log_user_query",
           [id |-> 0, query |-> query, timestamp |-> 0], <<query>>, outcome)

\* log_viewed_failure_mode(failure_mode)
LogViewedFailureMode(failure_mode, outcome) ==
    Insert("viewed_failure_modes", "log_viewed_failure_mode",
           [id |-> 0, failure_mode |-> failure_mode, timestamp |-> 0],
           <<failure_mode>>, outcome)

\* log_solution_feedback(failure_mode, solution_type, solution_text,
\*                       rating=None, comment=None)
LogSolutionFeedback(failure_mode, solution_type, solution_text, rating, comment, outcome) ==
    Insert("solution_feedback", "log_solution_feedback",
           [id |-> 0, failure_mode |-> failure_mode, solution_type |-> solution_type,
            solution_text |-> solution_text, rating |-> rating, comment |-> comment,
            timestamp |-> 0],
           <<failure_mode, solution_type, solution_text, rating, comment>>, outcome)

\* the orders in which a SELECT may deliver n rows
Orderings(n) ==
    {p \in [1..n -> 1..n] : \A i, j \in 1..n : i # j => p[i] # p[j]}

\* ORDER BY timestamp DESC: the statement names no second key, so rows of
\* equal timestamp come in whatever order the engine delivers them
ByTimestampDesc(rows) ==
    {[i \in 1..Len(rows) |-> rows[p[i]]] : p \in
        {q \in Orderings(Len(rows)) :
            \A i \in 1..(Len(rows) - 1) :
                rows[q[i]].timestamp >= rows[q[i + 1]].timestamp}}

\* LIMIT ?
Limit(rows, limit) == SubSeq(rows, 1, Min(limit, Len(rows)))

\* the results get_recent_queries(limit) can return
RecentQueries(limit) == {Limit(r, limit) : r \in ByTimestampDesc(user_queries)}

\* get_recent_queries(limit)
GetRecentQueries(limit) ==
    /\ \E r \in RecentQueries(limit) : ret' = Returned("get_recent_queries", limit, 0, r)
    /\ UNCHANGED <<user_queries, viewed_failure_modes, solution_feedback,
                   sqlite_sequence, uncommitted, lastrowid, clock, logged, failed>>

\* GROUP BY failure_mode with COUNT(*)
ViewCount(name) ==
    Cardinality({i \in 1..Len(viewed_failure_modes) :
                    viewed_failure_modes[i].failure_mode = name})
ViewGroups ==
    {[failure_mode |-> n, view_count |-> ViewCount(n)] :
        n \in {viewed_failure_modes[i].failure_mode : i \in 1..Len(viewed_failure_modes)}}

\* every sequence that lists each element of the set S once
Listings(S) ==
    {s \in [1..Cardinality(S) -> S] : \A i, j \in 1..Cardinality(S) : i # j => s[i] # s[j]}

\* (mutant) ORDER BY view_count ASC
MostViewedAscending(limit) ==
    {Limit(s, limit) : s \in
        {l \in Listings(ViewGroups) :
            \A i \in 1..(Len(l) - 1) : l[i].view_count <= l[i + 1].view_count}}

\* ORDER BY view_count DESC LIMIT ?: groups of equal count in engine order
MostViewed(limit) ==
    {Limit(s, limit) : s \in
        {l \in Listings(ViewGroups) :
            \A i \in 1..(Len(l) - 1) : l[i].view_count >= l[i + 1].view_count}}

\* get_most_viewed_failure_modes(limit)
GetMostViewedFailureModes(limit) ==
    /\ \E r \in MostViewed(limit) :
          ret' = Returned("get_most_viewed_failure_modes", limit, 0, r)
    /\ UNCHANGED <<user_queries, viewed_failure_modes, solution_feedback,
                   sqlite_sequence, uncommitted, lastrowid, clock, logged, failed>>

RECURSIVE SumRatings(_, _)
SumRatings(rows, i) ==
    IF i > Len(rows) THEN 0
    ELSE (IF rows[i].rating = <<>> THEN 0 ELSE rows[i].rating[1]) + SumRatings(rows, i + 1)

\* (mutant) AVG over every row of the type, a NULL rating counting as 0
AvgRatingsNullAsZero ==
    LET types == {solution_feedback[i].solution_type : i \in 1..Len(solution_feedback)}
    IN  [ty \in types |->
            LET mine == SelectSeq(solution_feedback, LAMBDA r : r.solution_type = ty)
            IN  [sum |-> SumRatings(mine, 1), n |-> Len(mine)]]

\* SELECT solution_type, AVG(rating) ... WHERE rating IS NOT NULL GROUP BY
\* solution_type: the mean is kept as the exact fraction sum / n
AvgRatingsByType ==
    LET rated == SelectSeq(solution_feedback, LAMBDA r : r.rating # <<>>)
        types == {rated[i].solution_type : i \in 1..Len(rated)}
    IN  [ty \in types |->
            LET mine == SelectSeq(rated, LAMBDA r : r.solution_type = ty)
            IN  [sum |-> SumRatings(mine, 1), n |-> Len(mine)]]

\* SELECT failure_mode, COUNT(*) ... GROUP BY failure_mode
FeedbackCountByMode ==
    LET names == {solution_feedback[i].failure_mode : i \in 1..Len(solution_feedback)}
    IN  [n \in names |->
            Cardinality({i \in 1..Len(solution_feedback) :
                            solution_feedback[i].failure_mode = n})]

\* get_solution_feedback_stats()
GetSolutionFeedbackStats ==
    /\ ret' = Returned("get_solution_feedback_stats", 0, 0,
                       <<AvgRatingsByType, FeedbackCountByMode>>)
    /\ UNCHANGED <<user_queries, viewed_failure_modes, solution_feedback,
                   sqlite_sequence, uncommitted, lastrowid, clock, logged, failed>>

\* a second passes
Tick ==
    /\ clock < MaxClock
    /\ clock' = clock + 1
    /\ UNCHANGED <<agentVars, routeVars, app, widgets, user_queries,
                   viewed_failure_modes,
                   solution_feedback, sqlite_sequence, uncommitted, lastrowid, ret,
                   logged, failed>>

-----------------------------------------------------------------------------
(* The texts the router is run on                                          *)

MaxFragments == 2   \* fragments a request text is made of

Fragments ==
    { <<"Q", "z">>,
      <<"Z">>,
      <<"j">>,
      <<"E", "x", "p", "l", "a", "i", "n", " ", "K", "v">>,
      <<"a", "b", "o", "u", "t", " ", "y">>,
      <<"e", "x", "p", "l", "a", "i", "n", " ">>,
      <<"l", "i", "s", "t", " ", "a", "l", "l", " ", "f", "a", "i", "l", "u", "r", "e", " ", "m", "o", "d", "e", "s">>,
      <<"S", "h", "o", "w", " ", "A", "l", "l", " ", "F", "a", "i", "l", "u", "r", "e", "s">>,
      <<"l", "i", "s", "t", " ", "a", "l", "l", " ", "c", "a", "t", "e", "g", "o", "r", "i", "e", "s">>,
      <<"s", "h", "o", "w", " ", "a", "l", "l", " ", "c", "a", "t", "e", "g", "o", "r", "i", "e", "s">>,
      <<"?">> }

RECURSIVE Texts(_)
Texts(n) ==
    IF n = 0 THEN {<<>>}
    ELSE Texts(n - 1) \cup {t \o f : t \in Texts(n - 1), f \in Fragments}

Requests == Texts(MaxFragments)

-----------------------------------------------------------------------------
(* agent.py: a call of process_user_request                                *)

\* what the last call on this text chose, for a caller that repeats it
Chosen(text) ==
    IF request = text /\ response.status # "none"
    THEN <<[status |-> response.status, kind |-> response.kind,
            subject |-> response.subject]>>
    ELSE <<>>

\* response = agent.process_user_request(text)
Route(text) ==
    /\ agent = "ok"
    /\ \E pick \in RequestDraws(text) : response' = ProcessUserRequest(text, pick)
    /\ again' = Chosen(text)
    /\ request' = text

\* the router is called on the text of the state
ProcessUserRequestCall ==
    /\ Route(request)
    /\ UNCHANGED <<agentVars, dbVars, app, widgets>>

\* the accessors of the Taxonomy Store, called by a client
AccessorCall ==
    /\ agent = "ok"
    /\ \E n \in {mQz, mEx} :
          /\ app' = [handler |-> "accessors", entry |-> n,
                     calls |-> <<GetAllCategories,
                                 GetFailureModesInCategory(<<cKv>>),
                                 GetFailureModeInfo(n)>>]
          /\ failure_modes' = FailureModesAfterGet(n)
    /\ categories' = CategoriesAfterGet(<<cKv>>)
    /\ UNCHANGED <<source, agent, routeVars, dbVars, widgets>>

-----------------------------------------------------------------------------
(* app.py: the query tab                                                   *)

NoHandler == [handler |-> "none", entry |-> <<>>, calls |-> <<>>]

\* one call a handler made on its collaborators
Call(what, text, status) == [call |-> what, text |-> text, status |-> status]

\* the example buttons of _setup_query_tab (the last of the four)
Examples == { <<"L", "i", "s", "t", " ", "a", "l", "l", " ", "f", "a", "i", "l", "u", "r", "e", " ", "c", "a", "t", "e", "g", "o", "r", "i", "e", "s">> }

\* what the user leaves in query_entry before pressing Submit or Return
RawInputs ==
    { <<" ", " ">>,
      <<" ", "Q", "z", " ">>,
      <<"s", "h", "o", "w", " ", "a", "l", "l", " ", "c", "a", "t", "e", "g", "o", "r", "i", "e", "s", "\n">> }

\* _process_query with `raw` in query_entry
ProcessQueryOn(handler, raw, outcome) ==
    LET query == Strip(raw)
    IN  /\ agent = "ok"
        /\ IF query = <<>>
           THEN /\ app' = [handler |-> handler, entry |-> raw, calls |-> <<>>]
                /\ UNCHANGED <<routeVars, dbVars>>
           ELSE /\ TotalRows < MaxRows
                /\ LogUserQuery(query, outcome)
                /\ IF outcome = "ok"
                   THEN /\ Route(query)
                        /\ app' = [handler |-> handler, entry |-> raw,
                                   calls |-> <<Call("log_user_query", query, "ok"),
                                               Call("process_user_request", query,
                                                    response'.status)>>]
                   ELSE /\ app' = [handler |-> handler, entry |-> raw,
                                   calls |-> <<Call("log_user_query", query, "raised")>>]
                        /\ UNCHANGED routeVars
        /\ UNCHANGED <<agentVars, widgets>>

\* _process_query: Submit or Return
ProcessQuery ==
    \E raw \in RawInputs, outcome \in Outcomes :
        ProcessQueryOn("_process_query", raw, outcome)

\* _set_example_query(example): the entry is replaced, then _process_query
SetExampleQuery ==
    \E example \in Examples, outcome \in Outcomes :
        ProcessQueryOn("_set_example_query", example, outcome)

-----------------------------------------------------------------------------
(* app.py: the failure modes tab                                           *)

MaxSelections == 3  \* rows of viewed_failure_modes the tab writes

kNone == <<"N", "o", "n", "e">>

\* a Python value as Tk holds it in a widget option: a str as it is, any
\* other value through str(), so the key None becomes the text "None"
TkString(key) == IF key = <<>> THEN kNone ELSE key[1]

\* combobox["values"] = keys
TkList(keys) == [i \in 1..Len(keys) |-> TkString(keys[i])]

\* before _setup_failure_modes_tab: no widget, no attribute
NoWidgets ==
    [description_text |-> FALSE, category_values |-> <<>>, category_var |-> <<>>,
     mode_values |-> <<>>, mode_var |-> <<>>]

\* _update_failure_mode_dropdown, up to its call of _on_failure_mode_select:
\* the widgets it leaves
UpdateFailureModeDropdown(w) ==
    LET category == w.category_var
        modes == GetFailureModesInCategory(<<category>>)
    IN  IF category = <<>> THEN w
        ELSE IF modes = <<>> THEN [w EXCEPT !.mode_values = modes]
        ELSE [w EXCEPT !.mode_values = modes, !.mode_var = modes[1]]

\* whether _update_failure_mode_dropdown goes on to _on_failure_mode_select
UpdateSelects(w) ==
    /\ w.category_var # <<>>
    /\ GetFailureModesInCategory(<<w.category_var>>) # <<>>
    /\ w.description_text

\* _on_failure_mode_select with the widgets w, `entry` being what the user
\* picked; the text areas it fills afterwards are not kept
OnFailureModeSelectOn(handler, entry, w, outcome) ==
    LET mode == w.mode_var
    IN  /\ widgets' = w
        /\ IF mode = <<>>
           THEN /\ app' = [handler |-> handler, entry |-> entry, calls |-> <<>>]
                /\ UNCHANGED dbVars
           ELSE /\ Len(viewed_failure_modes) < MaxSelections
                /\ LogViewedFailureMode(mode, outcome)
                /\ app' = [handler |-> handler, entry |-> entry,
                           calls |-> <<Call("log_viewed_failure_mode", mode,
                                            IF outcome = "ok" THEN "ok" ELSE "raised")>>]

\* _setup_failure_modes_tab: the dropdowns are filled and
\* _update_failure_mode_dropdown runs before description_text is created
SetupFailureModesTab ==
    /\ agent = "ok"
    /\ ~widgets.description_text
    /\ LET cats == TkList(GetAllCategories)
           filled == [NoWidgets EXCEPT
                         !.category_values = cats,
                         !.category_var = IF cats # <<>> THEN cats[1] ELSE <<>>]
       IN  widgets' = [UpdateFailureModeDropdown(filled) EXCEPT !.description_text = TRUE]
    /\ app' = [handler |-> "_setup_failure_modes_tab", entry |-> <<>>, calls |-> <<>>]
    /\ UNCHANGED <<agentVars, routeVars, dbVars>>

\* _on_category_dropdown_select: the user picks an entry of the (readonly)
\* category dropdown
OnCategoryDropdownSelect ==
    /\ agent = "ok"
    /\ widgets.description_text
    /\ \E i \in 1..Len(widgets.category_values), outcome \in Outcomes :
          LET picked == [widgets EXCEPT !.category_var = widgets.category_values[i]]
          IN  IF UpdateSelects(picked)
              THEN OnFailureModeSelectOn("_on_category_dropdown_select",
                                         picked.category_var,
                                         UpdateFailureModeDropdown(picked), outcome)
              ELSE /\ widgets' = UpdateFailureModeDropdown(picked)
                   /\ app' = [handler |-> "_on_category_dropdown_select",
                              entry |-> picked.category_var, calls |-> <<>>]
                   /\ UNCHANGED dbVars
    /\ UNCHANGED <<agentVars, routeVars>>

\* _on_failure_mode_select: the user picks an entry of the mode dropdown
OnFailureModeSelect ==
    /\ agent = "ok"
    /\ widgets.description_text
    /\ \E j \in 1..Len(widgets.mode_values), outcome \in Outcomes :
          OnFailureModeSelectOn("_on_failure_mode_select", widgets.mode_values[j],
                                [widgets EXCEPT !.mode_var = widgets.mode_values[j]],
                                outcome)
    /\ UNCHANGED <<agentVars, routeVars>>

-----------------------------------------------------------------------------
(* The specifications                                                      *)

InitDatabase ==
    /\ user_queries = <<>>
    /\ viewed_failure_modes = <<>>
    /\ solution_feedback = <<>>
    /\ sqlite_sequence = [t \in Tables |-> 0]
    /\ uncommitted = {}
    /\ lastrowid = 0
    /\ clock = 0
    /\ ret = NoCall
    /\ logged = [t \in Tables |-> <<>>]
    /\ failed = {}

\* before MultiAgentFailureEducator() is called
InitAgent(sources, texts) ==
    /\ source \in sources
    /\ agent = "new"
    /\ failure_modes = <<>>
    /\ categories = <<>>
    /\ request \in texts
    /\ response = NoResponse
    /\ again = <<>>
    /\ app = NoHandler
    /\ widgets = NoWidgets

\* The Taxonomy Store and the Query Router, on every data file and text.
Init == InitAgent(Sources, Requests) /\ InitDatabase
Next == Construct \/ ProcessUserRequestCall \/ AccessorCall
Spec == Init /\ [][Next]_vars

-----------------------------------------------------------------------------
(* The Interaction Log, called directly                                    *)

DefaultRecentLimit == 10    \* get_recent_queries(limit=10)
DefaultViewedLimit == 5     \* get_most_viewed_failure_modes(limit=5)

kFoo == <<"f", "o", "o">>
kGone == <<"g", "o", "n", "e">>

QueryTexts == {kFoo, mQz}
ViewNames == {mQz, kGone}       \* kGone names no mode of the store
FeedbackInputs == { <<mQz, "tactical", "t1", <<4>>, <<"fine">>>> }
Limits == {1}

DbSource == Json(<<Item(mQz, rFull), Item(mZ, rNoStruct), Item(mJ, rOther)>>)

LogUserQueryCall ==
    /\ TotalRows < MaxRows
    /\ \E q \in QueryTexts, o \in Outcomes : LogUserQuery(q, o)
    /\ UNCHANGED <<agentVars, routeVars, app, widgets>>

LogViewedFailureModeCall ==
    /\ TotalRows < MaxRows
    /\ \E n \in ViewNames, o \in Outcomes : LogViewedFailureMode(n, o)
    /\ UNCHANGED <<agentVars, routeVars, app, widgets>>

LogSolutionFeedbackCall ==
    /\ TotalRows < MaxRows
    /\ \E f \in FeedbackInputs, o \in Outcomes :
          LogSolutionFeedback(f[1], f[2], f[3], f[4], f[5], o)
    /\ UNCHANGED <<agentVars, routeVars, app, widgets>>

GetRecentQueriesCall ==
    /\ \E limit \in Limits \cup {DefaultRecentLimit} : GetRecentQueries(limit)
    /\ UNCHANGED <<agentVars, routeVars, app, widgets>>

GetMostViewedFailureModesCall ==
    /\ \E limit \in Limits \cup {DefaultViewedLimit} : GetMostViewedFailureModes(limit)
    /\ UNCHANGED <<agentVars, routeVars, app, widgets>>

GetSolutionFeedbackStatsCall ==
    /\ GetSolutionFeedbackStats
    /\ UNCHANGED <<agentVars, routeVars, app, widgets>>

\* after MultiAgentFailureEducator() and FailureEducatorDatabase()
InitConstructed(src) ==
    /\ source = src
    /\ agent = "ok"
    /\ failure_modes = LoadFailureModes(src)
    /\ categories = OrganizeCategories(LoadFailureModes(src))
    /\ request = <<>>
    /\ response = NoResponse
    /\ again = <<>>
    /\ app = NoHandler
    /\ widgets = NoWidgets

InitDB == InitConstructed(DbSource) /\ InitDatabase
NextDB ==
    \/ LogUserQueryCall \/ LogViewedFailureModeCall \/ LogSolutionFeedbackCall
    \/ GetRecentQueriesCall \/ GetMostViewedFailureModesCall
    \/ GetSolutionFeedbackStatsCall \/ Tick
SpecDB == InitDB /\ [][NextDB]_vars

-----------------------------------------------------------------------------
(* The reference caller                                                    *)

AppSources ==
    { Json(<<Item(mQz, rFull), Item(mZ, rNoStruct), Item(mJ, rOther)>>),
      Json(<<Item(mJ, rNoCat), Item(mQz, rFull)>>),
      File("json", "list", <<>>) }

InitApp == InitAgent(AppSources, {<<>>}) /\ InitDatabase
NextApp == Construct \/ ProcessQuery \/ SetExampleQuery \/ Tick
SpecApp == InitApp /\ [][NextApp]_vars

-----------------------------------------------------------------------------
(* The reference caller: browsing failure modes                            *)

BrowseSources ==
    { Json(<<Item(mQz, rFull), Item(mZ, rNoStruct), Item(mJ, rOther)>>),
      Json(<<Item(mJ, rNoCat), Item(mQz, rFull)>>),
      Json(<<>>) }

InitBrowse == InitAgent(BrowseSources, {<<>>}) /\ InitDatabase
NextBrowse ==
    \/ Construct \/ SetupFailureModesTab
    \/ OnCategoryDropdownSelect \/ OnFailureModeSelect
SpecBrowse == InitBrowse /\ [][NextBrowse]_vars

-----------------------------------------------------------------------------
(* The view log and its ranking                                            *)

MaxViews == 4       \* rows of viewed_failure_modes

ViewedNames == {mQz, mZ, kGone}     \* kGone names no mode of the store
ViewLimits == {0, 1, 2}

LogViewCall ==
    /\ Len(viewed_failure_modes) < MaxViews
    /\ \E n \in ViewedNames, o \in Outcomes : LogViewedFailureMode(n, o)
    /\ UNCHANGED <<agentVars, routeVars, app, widgets>>

MostViewedCall ==
    /\ \E limit \in ViewLimits \cup {DefaultViewedLimit} :
          GetMostViewedFailureModes(limit)
    /\ UNCHANGED <<agentVars, routeVars, app, widgets>>

NextViews == LogViewCall \/ MostViewedCall
SpecViews == InitDB /\ [][NextViews]_vars

-----------------------------------------------------------------------------
(* The feedback log and its statistics                                     *)

MaxFeedback == 3    \* rows of solution_feedback

\* failure_mode, solution_type, solution_text, rating, comment
FeedbackEntries ==
    { <<mQz, "tactical", "t1", <<4>>, <<>>>>,
      <<mQz, "tactical", "t2", <<2>>, <<"fine">>>>,
      <<mZ, "structural", "u1", <<>>, <<>>>>,
      <<mZ, "tactical", "t1", <<>>, <<"unsure">>>>,
      <<kGone, "structural", "u1", <<0>>, <<>>>> }

LogFeedbackCall ==
    /\ Len(solution_feedback) < MaxFeedback
    /\ \E f \in FeedbackEntries, o \in Outcomes :
          LogSolutionFeedback(f[1], f[2], f[3], f[4], f[5], o)
    /\ UNCHANGED <<agentVars, routeVars, app, widgets>>

FeedbackStatsCall ==
    /\ GetSolutionFeedbackStats
    /\ UNCHANGED <<agentVars, routeVars, app, widgets>>

NextFeedback == LogFeedbackCall \/ FeedbackStatsCall
SpecFeedback == InitDB /\ [][NextFeedback]_vars

-----------------------------------------------------------------------------
(* Properties of the Query Router and of construction (Spec)               *)

DocumentKinds == {"failure_mode", "category", "all_modes", "all_categories", "help"}

\* C1: process_user_request never throws: on every text and every store that
\* construction produces, a call returns one of the five documents.
C1_RouteNeverThrows ==
    response.status # "none" =>
        /\ response.status = "returned"
        /\ response.kind \in DocumentKinds

\* C2: the rules apply in strict priority order on the lower-cased text: a
\* mode identifier as a substring gives the failure-mode document; else
\* "explain "/"about " followed by a category name gives the category
\* document; else the two all-modes phrases; else the two all-categories
\* phrases; else the help document.
C2_PriorityOrder ==
    LET text == Lower(request)
        names == {Lower(failure_modes[i].name) : i \in 1..Len(failure_modes)}
        cats == {Lower(categories[i].key[1]) :
                    i \in {j \in 1..Len(categories) : categories[j].key # <<>>}}
        expected ==
            IF \E n \in names : Contains(n, text) THEN "failure_mode"
            ELSE IF \E c \in cats : \/ Contains(kExplain \o c, text)
                                    \/ Contains(kAbout \o c, text)
            THEN "category"
            ELSE IF \/ Contains(kListAllFailureModes, text)
                    \/ Contains(kShowAllFailures, text)
            THEN "all_modes"
            ELSE IF \/ Contains(kListAllCategories, text)
                    \/ Contains(kShowAllCategories, text)
            THEN "all_categories"
            ELSE "help"
    IN  response.status # "none" =>
            /\ response.status = "returned"
            /\ response.kind = expected

\* C3: when mode identifiers are substrings of the text, the document is
\* that of the one that comes first in store order, wherever the names stand
\* in the text; a second call on the same text selects the same mode.
C3_FirstInStoreOrderWins ==
    LET text == Lower(request)
        hit(i) == Contains(Lower(failure_modes[i].name), text)
    IN  response.status # "none" =>
            /\ \A i \in 1..Len(failure_modes) :
                  (hit(i) /\ \A j \in 1..(i - 1) : ~hit(j)) =>
                      /\ response.status = "returned"
                      /\ response.kind = "failure_mode"
                      /\ response.subject = <<failure_modes[i].name>>
            /\ again # <<>> =>
                  /\ again[1].status = response.status
                  /\ again[1].kind = response.kind
                  /\ again[1].subject = response.subject

\* C3 witness: the store holds Qz before z, the text "ZQz" names z before
\* Qz, and the second call on it selected Qz again.
C3_Witness ==
    /\ request = <<"Z", "Q", "z">>
    /\ Len(failure_modes) >= 2
    /\ failure_modes[1].name = mQz
    /\ failure_modes[2].name = mZ
    /\ response.status = "returned"
    /\ response.subject = <<mQz>>
    /\ again # <<>>

\* C4: construction never fails: an absent or malformed data file (not
\* readable, not JSON, or JSON that is no mapping from identifier to record)
\* gives an empty failure-mode set and an empty category index.
C4_ConstructionDegrades ==
    LET malformed ==
            \/ source.kind # "json"
            \/ source.top # "dict"
            \/ \E i \in 1..Len(source.items) : ~source.items[i].isdict
    IN  /\ agent # "raised"
        /\ (agent = "ok" /\ malformed) =>
              /\ failure_modes = <<>>
              /\ categories = <<>>

-----------------------------------------------------------------------------
(* Properties of the Interaction Log (SpecDB)                              *)

LogOps == {"log_user_query", "log_viewed_failure_mode", "log_solution_feedback"}

\* C5: each of the three tables holds exactly the entries passed to its own
\* log calls, in call order and with unchanged content; a log call adds one
\* entry to its own table and none to the others, and no read adds, changes
\* or removes an entry.
C5_TablesHoldWhatWasLogged ==
    /\ [i \in 1..Len(user_queries) |-> <<user_queries[i].query>>]
          = logged["user_queries"]
    /\ [i \in 1..Len(viewed_failure_modes) |-> <<viewed_failure_modes[i].failure_mode>>]
          = logged["viewed_failure_modes"]
    /\ [i \in 1..Len(solution_feedback) |->
            <<solution_feedback[i].failure_mode, solution_feedback[i].solution_type,
              solution_feedback[i].solution_text, solution_feedback[i].rating,
              solution_feedback[i].comment>>]
          = logged["solution_feedback"]

\* C6: get_recent_queries(limit) returns at most `limit` entries, newest
\* first by timestamp, entries of equal timestamp by id descending.
C6_RecentNewestFirstTiesByIdDescending ==
    ret.op = "get_recent_queries" =>
        /\ Len(ret.rows) <= ret.arg
        /\ \A i \in 1..(Len(ret.rows) - 1) :
              \/ ret.rows[i].timestamp > ret.rows[i + 1].timestamp
              \/ /\ ret.rows[i].timestamp = ret.rows[i + 1].timestamp
                 /\ ret.rows[i].id > ret.rows[i + 1].id

\* C7: read-your-write: the call of get_recent_queries(1) that follows a
\* returned log_user_query(t) returns exactly one entry, whose text is t.
C7_ReadYourWrite ==
    [][(/\ ret.op = "log_user_query"
        /\ ret.status = "ok"
        /\ ret'.op = "get_recent_queries"
        /\ ret'.arg = 1)
       => /\ Len(ret'.rows) = 1
          /\ ret'.rows[1].id = ret.id
          /\ ret'.rows[1].query = user_queries[Len(user_queries)].query]_vars

\* C8: ids are monotonic per table: rows carry strictly increasing ids, and
\* the id a log call returns is the id of the row it inserted, greater than
\* every id the table held before.
C8_IdsMonotonic ==
    /\ \A t \in Tables : \A i, j \in 1..Len(TableRows(t)) :
          i < j => TableRows(t)[i].id < TableRows(t)[j].id
    /\ (ret.op \in LogOps /\ ret.status = "ok") =>
          LET t == CASE ret.op = "log_user_query" -> "user_queries"
                     [] ret.op = "log_viewed_failure_mode" -> "viewed_failure_modes"
                     [] ret.op = "log_solution_feedback" -> "solution_feedback"
              rows == TableRows(t)
          IN  /\ rows # <<>>
              /\ rows[Len(rows)].id = ret.id
              /\ \A i \in 1..(Len(rows) - 1) : rows[i].id < ret.id
              /\ Len(logged[t]) > 0
              /\ logged[t][Len(logged[t])][1] =
                    (IF t = "user_queries" THEN rows[Len(rows)].query
                     ELSE rows[Len(rows)].failure_mode)

\* C8 witness: a second view was logged and got id 2, after a first view
\* and a query that took id 1 of their own tables.
C8_Witness ==
    /\ ret.op = "log_viewed_failure_mode"
    /\ ret.status = "ok"
    /\ ret.id = 2
    /\ Len(viewed_failure_modes) = 2
    /\ viewed_failure_modes[1].id = 1

\* C9: a failed log write is not retried: the entry a raising log call
\* tried to write is not in its table after the call, nor after any later
\* call.
C9_FailedWriteStaysOut ==
    \A f \in failed : \A i \in 1..Len(TableRows(f[1])) : TableRows(f[1])[i].id # f[2]

-----------------------------------------------------------------------------
(* Properties of the reference caller (SpecApp)                            *)

QueryHandlers == {"_process_query", "_set_example_query"}

\* C10, as claimed: every query submission appends an entry carrying the raw
\* text the user entered before the router is invoked (so that entries and
\* submissions are equal in number).
C10_LogsRawTextOfEverySubmission ==
    app.handler \in QueryHandlers =>
        /\ app.calls # <<>>
        /\ app.calls[1].call = "log_user_query"
        /\ app.calls[1].text = app.entry

\* C10, amended: a submission that is blank after stripping whitespace is
\* neither logged nor routed; any other submission first calls
\* log_user_query with the text stripped of surrounding whitespace, and the
\* router is invoked, on that same stripped text, exactly when the log call
\* returned, the entry then being the newest row of user_queries.
C10_LogsStrippedTextBeforeRouting ==
    LET raw == app.entry
        blank == \A i \in 1..Len(raw) : raw[i] \in Whitespace
        stripped(q) ==
            /\ q # <<>>
            /\ q[1] \notin Whitespace
            /\ q[Len(q)] \notin Whitespace
            /\ \E a \in 0..(Len(raw) - Len(q)) :
                  /\ \A k \in 1..Len(q) : raw[a + k] = q[k]
                  /\ \A i \in 1..a : raw[i] \in Whitespace
                  /\ \A i \in (a + Len(q) + 1)..Len(raw) : raw[i] \in Whitespace
    IN  app.handler \in QueryHandlers =>
            IF blank THEN app.calls = <<>>
            ELSE /\ Len(app.calls) \in {1, 2}
                 /\ app.calls[1].call = "log_user_query"
                 /\ stripped(app.calls[1].text)
                 /\ (app.calls[1].status = "ok") <=> (Len(app.calls) = 2)
                 /\ Len(app.calls) = 2 =>
                       /\ app.calls[2].call = "process_user_request"
                       /\ app.calls[2].text = app.calls[1].text
                       /\ app.calls[2].status \in {"returned", "raised"}
                       /\ request = app.calls[1].text
                       /\ response.status = app.calls[2].status
                       /\ user_queries # <<>>
                       /\ user_queries[Len(user_queries)].query = app.calls[1].text

\* C10 witness: " Qz " was submitted, logged as "Qz" and then routed.
C10_Witness ==
    /\ app.handler = "_process_query"
    /\ app.entry = <<" ", "Q", "z", " ">>
    /\ Len(app.calls) = 2
    /\ app.calls[2].status = "returned"
    /\ user_queries[Len(user_queries)].query = mQz

-----------------------------------------------------------------------------
(* Properties of the view ranking (SpecViews)                              *)

\* C11: get_most_viewed_failure_modes(limit) returns at most `limit` rows, one
\* per distinct failure_mode of the view log (all of them when the limit
\* allows), each with view_count equal to the number of view entries of that
\* name, by view_count descending; a name with more entries than a returned
\* name is returned above it.  Names are counted whether or not the store
\* has them.
C11_MostViewedRanksByCount ==
    (ret.op = "get_most_viewed_failure_modes" /\ ret.status = "ok") =>
        LET rows == ret.rows
            entries == viewed_failure_modes
            names == {entries[i].failure_mode : i \in 1..Len(entries)}
            Views(n) == Cardinality({i \in 1..Len(entries) : entries[i].failure_mode = n})
        IN  /\ Len(rows) <= ret.arg
            /\ Len(rows) = Min(ret.arg, Cardinality(names))
            /\ \A i, j \in 1..Len(rows) :
                  i # j => rows[i].failure_mode # rows[j].failure_mode
            /\ \A i \in 1..Len(rows) :
                  /\ rows[i].failure_mode \in names
                  /\ rows[i].view_count = Views(rows[i].failure_mode)
            /\ \A i, j \in 1..Len(rows) :
                  i < j => rows[i].view_count >= rows[j].view_count
            /\ \A n \in names : \A j \in 1..Len(rows) :
                  Views(n) > rows[j].view_count =>
                      \E i \in 1..(j - 1) : rows[i].failure_mode = n

\* C11 (witness): kGone, unknown to the store, logged three times and Qz once,
\* every call returning; get_most_viewed_failure_modes(5) gives kGone with 3
\* above Qz with 1.
C11_Witness ==
    /\ logged["viewed_failure_modes"] = << <<kGone>>, <<kGone>>, <<kGone>>, <<mQz>> >>
    /\ failed = {}
    /\ GetFailureModeInfo(kGone) = EmptyRecord
    /\ ret = Returned("get_most_viewed_failure_modes", DefaultViewedLimit, 0,
                      << [failure_mode |-> kGone, view_count |-> 3],
                         [failure_mode |-> mQz, view_count |-> 1] >>)

-----------------------------------------------------------------------------
(* Properties of the feedback statistics (SpecFeedback)                    *)

\* the ratings of the feedback entries with index in S, added up
RECURSIVE RatingTotal(_)
RatingTotal(S) ==
    IF S = {} THEN 0
    ELSE LET i == CHOOSE x \in S : TRUE
         IN  solution_feedback[i].rating[1] + RatingTotal(S \ {i})

\* C12: get_solution_feedback_stats maps each solution type to the mean of
\* the non-null ratings of its feedback entries (sum / n) and has no key for
\* a type without a non-null rating; it maps each failure_mode to the count
\* of all its feedback entries, those with a null rating included.
C12_StatsMeanOfRatedCountOfAll ==
    (ret.op = "get_solution_feedback_stats" /\ ret.status = "ok") =>
        LET avg_ratings_by_type == ret.rows[1]
            feedback_count_by_mode == ret.rows[2]
            all == 1..Len(solution_feedback)
            Rated(ty) == {i \in all : /\ solution_feedback[i].solution_type = ty
                                      /\ solution_feedback[i].rating # <<>>}
            Of(n) == {i \in all : solution_feedback[i].failure_mode = n}
        IN  /\ DOMAIN avg_ratings_by_type =
                  {solution_feedback[i].solution_type : i \in {j \in all :
                      solution_feedback[j].rating # <<>>}}
            /\ \A ty \in DOMAIN avg_ratings_by_type :
                  /\ avg_ratings_by_type[ty].n = Cardinality(Rated(ty))
                  /\ avg_ratings_by_type[ty].n > 0
                  /\ avg_ratings_by_type[ty].sum = RatingTotal(Rated(ty))
            /\ DOMAIN feedback_count_by_mode =
                  {solution_feedback[i].failure_mode : i \in all}
            /\ \A n \in DOMAIN feedback_count_by_mode :
                  feedback_count_by_mode[n] = Cardinality(Of(n))

\* C12 (witness): tactical rated 4 and 2 and one unrated structural entry,
\* every call returning; the statistics have tactical = 6 / 2 = 3.0, no
\* structural key, and count the unrated entry for its mode.
C12_Witness ==
    /\ logged["solution_feedback"] =
          << <<mQz, "tactical", "t1", <<4>>, <<>>>>,
             <<mQz, "tactical", "t2", <<2>>, <<"fine">>>>,
             <<mZ, "structural", "u1", <<>>, <<>>>> >>
    /\ failed = {}
    /\ ret.op = "get_solution_feedback_stats"
    /\ DOMAIN ret.rows[1] = {"tactical"}
    /\ ret.rows[1]["tactical"].sum = 3 * ret.rows[1]["tactical"].n
    /\ DOMAIN ret.rows[2] = {mQz, mZ}
    /\ ret.rows[2][mQz] = 2
    /\ ret.rows[2][mZ] = 1

-----------------------------------------------------------------------------
(* Properties of the Taxonomy Store (Spec)                                 *)

\* how often x occurs in the sequence seq
Count(x, seq) == Cardinality({j \in 1..Len(seq) : seq[j] = x})

\* C13: for every record of the store with a non-empty category,
\* get_all_categories() contains that category exactly once and
\* get_failure_modes_in_category(that category) contains the mode's
\* identifier exactly once.
C13_CategoryAndModeListedOnce ==
    agent = "ok" =>
        \A i \in 1..Len(failure_modes) :
            LET category == failure_modes[i].data.category
            IN  (category # <<>> /\ category[1] # <<>>) =>
                    /\ Count(category, GetAllCategories) = 1
                    /\ Count(failure_modes[i].name,
                             GetFailureModesInCategory(category)) = 1

\* C13 (witness): two modes of the category Kv and one of y; the accessors
\* were called and listed Kv once, with both of its modes.
C13_Witness ==
    /\ agent = "ok"
    /\ Len(failure_modes) = 3
    /\ failure_modes[1].data.category = <<cKv>>
    /\ failure_modes[2].data.category = <<cKv>>
    /\ app.handler = "accessors"
    /\ app.calls[1] = << <<cKv>>, <<cY>> >>
    /\ app.calls[2] = <<mQz, mZ>>

\* C14: the Taxonomy Store is read-only after construction: no accessor, no
\* process_user_request call and no document builder changes
\* self.failure_modes or self.categories, so both keep their
\* post-construction value.
C14_StoreReadOnlyAfterConstruction ==
    [][agent = "ok" =>
          /\ failure_modes' = failure_modes
          /\ categories' = categories]_vars

\* C14 (witness): after a returned document and accessor calls that missed
\* (Ex is no mode of the store), the store is what __init__ built from a
\* data file with records.
C14_Witness ==
    /\ agent = "ok"
    /\ response.status = "returned"
    /\ response.kind = "failure_mode"
    /\ app.handler = "accessors"
    /\ app.entry = mEx
    /\ ~HasMode(LoadFailureModes(source), mEx)
    /\ failure_modes # <<>>
    /\ failure_modes = LoadFailureModes(source)
    /\ categories = OrganizeCategories(LoadFailureModes(source))

\* C15: a lookup miss is no error: get_failure_modes_in_category(category)
\* for a category that is no key of the index returns [], and
\* get_failure_mode_info(name) for a name that is no key of the store returns
\* {}; neither call raises and neither adds the missing key.
C15_LookupMissReturnsEmpty ==
    [][app'.handler = "accessors" =>
          /\ ~HasKey(categories, <<cKv>>) =>
                /\ app'.calls[2] = <<>>
                /\ ~HasKey(categories', <<cKv>>)
          /\ ~HasMode(failure_modes, app'.entry) =>
                /\ app'.calls[3] = EmptyRecord
                /\ ~HasMode(failure_modes', app'.entry)]_vars

\* C15 (witness): on a store with one mode and one bucket, both lookups
\* missed and returned the empty values; the keys are still missing.
C15_Witness ==
    /\ agent = "ok"
    /\ Len(failure_modes) = 1
    /\ Len(categories) = 1
    /\ app.handler = "accessors"
    /\ app.entry = mQz
    /\ app.calls[2] = <<>>
    /\ app.calls[3] = EmptyRecord
    /\ ~HasKey(categories, <<cKv>>)
    /\ ~HasMode(failure_modes, mQz)

-----------------------------------------------------------------------------
(* Properties of the failure-mode document (Spec)                          *)

\* C16: the failure-mode document has the Tactical Solutions and the
\* Structural Solutions heading once each, in that order, each followed by
\* one bullet per item of the mode's list in list order and nothing else; a
\* list that is empty or missing gives the heading with no bullet.
C16_BothSolutionHeadingsAlways ==
    (response.status = "returned" /\ response.kind = "failure_mode") =>
        LET lines == response.lines
            mode_info == GetFailureModeInfo(response.subject[1])
            tactical == IF mode_info.tactical_solutions = <<>> THEN <<>>
                        ELSE mode_info.tactical_solutions[1]
            structural == IF mode_info.structural_solutions = <<>> THEN <<>>
                          ELSE mode_info.structural_solutions[1]
            At(title) == {i \in 1..Len(lines) : lines[i] = Line("h3", <<title>>)}
        IN  /\ Cardinality(At("Tactical Solutions")) = 1
            /\ Cardinality(At("Structural Solutions")) = 1
            /\ \A t \in At("Tactical Solutions") : \A u \in At("Structural Solutions") :
                  /\ t < u
                  /\ u - t - 1 = Len(tactical)
                  /\ \A k \in 1..Len(tactical) :
                        lines[t + k] = Line("bullet", <<tactical[k]>>)
                  /\ Len(lines) - u = Len(structural)
                  /\ \A k \in 1..Len(structural) :
                        lines[u + k] = Line("bullet", <<structural[k]>>)

\* C16 (witness): the document of mode z, whose structural_solutions is the
\* empty list, ends with the Structural Solutions heading, after the one
\* tactical bullet.
C16_Witness ==
    /\ response.status = "returned"
    /\ response.kind = "failure_mode"
    /\ response.subject = <<mZ>>
    /\ GetFailureModeInfo(mZ).structural_solutions = << <<>> >>
    /\ response.lines[Len(response.lines)] = Line("h3", <<"Structural Solutions">>)
    /\ response.lines[Len(response.lines) - 1] = Line("bullet", <<"t1">>)
    /\ response.lines[Len(response.lines) - 2] = Line("h3", <<"Tactical Solutions">>)

-----------------------------------------------------------------------------
(* Properties of the category index (Spec)                                 *)

\* position of the identifier n in the store
StoreIndex(n) == CHOOSE i \in 1..Len(failure_modes) : failure_modes[i].name = n

\* C18: the category index is an order-preserving partition of the store:
\* every identifier is in exactly one bucket, once, and that bucket is keyed
\* by its record's category (None for a record without one, a single
\* bucket); no bucket is empty or holds an identifier that is not in the
\* store; identifiers within a bucket are in store order; buckets are in
\* order of first occurrence, which is the order get_all_categories lists;
\* deriving the index again from the same records gives the same index.
C18_IndexIsOrderedPartition ==
    agent = "ok" =>
        LET buckets == 1..Len(categories)
            Places(n) == {<<b, j>> \in buckets \X (1..Len(failure_modes)) :
                            /\ j <= Len(categories[b].modes)
                            /\ categories[b].modes[j] = n}
        IN  /\ \A i \in 1..Len(failure_modes) :
                  /\ Cardinality(Places(failure_modes[i].name)) = 1
                  /\ \A pl \in Places(failure_modes[i].name) :
                        categories[pl[1]].key = failure_modes[i].data.category
            /\ \A b, c \in buckets : b # c => categories[b].key # categories[c].key
            /\ \A b \in buckets :
                  /\ categories[b].modes # <<>>
                  /\ \A j \in 1..Len(categories[b].modes) :
                        HasMode(failure_modes, categories[b].modes[j])
                  /\ \A j, k \in 1..Len(categories[b].modes) :
                        j < k => StoreIndex(categories[b].modes[j])
                                   < StoreIndex(categories[b].modes[k])
            /\ \A b, c \in buckets :
                  b < c => StoreIndex(categories[b].modes[1])
                             < StoreIndex(categories[c].modes[1])
            /\ GetAllCategories = [b \in buckets |-> categories[b].key]
            /\ OrganizeCategories(failure_modes) = categories

\* C18 (witness): the store [z, Qz, J] with z and Qz of category Kv and J of
\* y gives the buckets Kv: [z, Qz] and y: [J], in that order.
C18_Witness ==
    /\ agent = "ok"
    /\ Len(failure_modes) = 3
    /\ failure_modes[1].name = mZ
    /\ failure_modes[2].name = mQz
    /\ categories = << [key |-> <<cKv>>, modes |-> <<mZ, mQz>>],
                       [key |-> <<cY>>, modes |-> <<mJ>>] >>

\* C18 (witness, null bucket): a record without category is filed, alone,
\* under the key None, ahead of the bucket first seen after it.
C18_WitnessNoneBucket ==
    /\ agent = "ok"
    /\ categories = << [key |-> <<>>, modes |-> <<mJ>>],
                       [key |-> <<cKv>>, modes |-> <<mQz>>] >>

-----------------------------------------------------------------------------
(* Properties of the failure modes tab (SpecBrowse)                        *)

BrowseHandlers == {"_on_category_dropdown_select", "_on_failure_mode_select"}

\* C17: once the detail widgets exist, every run of _on_failure_mode_select
\* with a non-empty selected mode appends one view entry of that mode, and
\* so does the run that selecting a category triggers: selecting a category
\* that has at least one mode logs one view of that category's first mode,
\* selecting one without modes logs nothing.  (An entry is appended when the
\* log call returns; a log call that raises appends at most that entry.)
C17_SelectingLogsView ==
    [][(agent = "ok" /\ widgets.description_text /\ app'.handler \in BrowseHandlers) =>
          LET before == viewed_failure_modes
              after == viewed_failure_modes'
              Appended(m) ==
                  /\ Len(after) = Len(before) + 1
                  /\ SubSeq(after, 1, Len(before)) = before
                  /\ after[Len(after)].failure_mode = m
              Logs(m) ==
                  /\ Len(app'.calls) = 1
                  /\ app'.calls[1].call = "log_viewed_failure_mode"
                  /\ app'.calls[1].text = m
                  /\ app'.calls[1].status = "ok" => Appended(m)
                  /\ app'.calls[1].status # "ok" => (after = before \/ Appended(m))
              selected == {b \in 1..Len(categories) :
                              TkString(categories[b].key) = app'.entry}
          IN  IF app'.handler = "_on_failure_mode_select"
              THEN widgets'.mode_var # <<>> => Logs(widgets'.mode_var)
              ELSE \A b \in selected :
                      IF categories[b].modes # <<>>
                      THEN Logs(categories[b].modes[1])
                      ELSE app'.calls = <<>> /\ after = before]_vars

=============================================================================
